---- MODULE Spec2Model ----
(***************************************************************************)
(* Model of the notifier plugin (src/src/service.ts, messages in           *)
(* src/unnamed/part_000): the subscription table built by listen(), the    *)
(* per-event handler registered by subscribe(), the active-delegate diff   *)
(* and the fan-out of POSTs to the configured webhooks.                    *)
(*                                                                         *)
(* JavaScript values are modelled as follows.  A string is a string.  An   *)
(* object is a function from its keys to its values.  An array is a        *)
(* sequence.  A URL is the sequence of its parts, so that                  *)
(* String.includes(host) is membership of the part.  A vote directive      *)
(* "+key" is the pair <<"+", key>>.  A template argument is a tagged value *)
(* [t |-> type, v |-> sequence of strings], so that a template applied to  *)
(* a value of the wrong type (or to a missing argument) can throw.         *)
(***************************************************************************)
EXTENDS Integers, Sequences, FiniteSets, TLC

VARIABLES
    phase,                          \* "constructed" before listen(), "listening" after
    options,                        \* the IOptions passed to listen()
    events,                         \* Service.events: event name -> list of targets
    explorerTxUrl,                  \* Service.explorerTxUrl
    listeners,                      \* registrations made on the emitter by subscribe()
    warnings,                       \* logger.warning calls of listen(), in order
    LAST_ACTIVE_DELEGATES_CACHED,   \* the module-level baseline
    activeDelegates,                \* the chain's active delegates now, as usernames
    startupDelegates,               \* history: the list listen() obtained
    changedSinceObserved,           \* history: the answer changed since a diff last read it
    lastNotified,                   \* history: the list of the last diff that was not suppressed
    lastDiff,                       \* history: the diff computed last
    fuel,                           \* the occurrences and chain changes a bounded run has left
    tasks                           \* the invocations of handle(), one per slot

vars ==
    << phase, options, events, explorerTxUrl, listeners, warnings,
       LAST_ACTIVE_DELEGATES_CACHED, activeDelegates, startupDelegates,
       changedSinceObserved, lastNotified, lastDiff, fuel, tasks >>

----------------------------------------------------------------------------
(* JavaScript helpers *)

Undefined ==
    "undefined"

EmptyObject ==
    [k \in {} |-> Undefined]

\* obj[key] of a JavaScript object: undefined when the key is absent
Prop(obj, key) ==
    IF key \in DOMAIN obj THEN obj[key] ELSE Undefined

\* !x for the string-or-undefined values of the configuration
Falsy(x) ==
    x \in {Undefined, ""}

\* Array.prototype.includes / String.prototype.includes on a URL's parts
Includes(seq, x) ==
    \E i \in 1..Len(seq) : seq[i] = x

\* the sequences over S of length at most n
SeqsUpTo(S, n) ==
    UNION { [1..k -> S] : k \in 0..n }

\* the sequences over S of length at most n without a repeated element
DistinctSeqsUpTo(S, n) ==
    { s \in SeqsUpTo(S, n) : \A i, j \in 1..Len(s) : i # j => s[i] # s[j] }

----------------------------------------------------------------------------
(* Constants of service.ts *)

VALID_EVENTS ==
    << "block.applied", "block.forged", "block.reverted", "delegate.registered",
       "delegate.resigned", "forger.failed", "forger.missing", "forger.started",
       "peer.added", "peer.removed", "transaction.applied", "transaction.expired",
       "transaction.forged", "transaction.reverted", "wallet.vote", "wallet.unvote",
       "round.created", "round.missed", "activedelegateschanged" >>

CUSTOM_EVENTS ==
    << "activedelegateschanged" >>

CUSTOM_EVENT_MAPPING ==
    [ activedelegateschanged |-> "block.applied" ]

\* the mutant of HandlerNames: a handler for every valid event
HandlerNamesEveryValidEvent ==
    { VALID_EVENTS[i] : i \in 1..Len(VALID_EVENTS) }

\* the keys of the handlers table built by subscribe()
HandlerNames ==
    { "wallet.vote", "wallet.unvote", "forger.missing", "forger.failed",
      "forger.started", "block.forged", "round.created", "delegate.registered",
      "delegate.resigned", "activedelegateschanged" }

----------------------------------------------------------------------------
(* listen(): the subscription table *)

\* the mutant of isValidEvent: every configured name is accepted
isValidEventAcceptAll(event) ==
    TRUE

\* VALID_EVENTS.includes(event)
isValidEvent(event) ==
    Includes(VALID_EVENTS, event)

\* if (!this.events[event]) this.events[event] = []; this.events[event].push({...})
pushTarget(table, event, webhook) ==
    LET created == IF event \in DOMAIN table THEN table ELSE (event :> << >>) @@ table
    IN  [created EXCEPT ![event] =
            Append(@, [endpoint |-> webhook.endpoint, payload |-> webhook.payload])]

\* for (const event of webhook.events) { ... }, from the i-th event on
RECURSIVE registerEvents(_, _, _)
registerEvents(table, webhook, i) ==
    IF i > Len(webhook.events)
    THEN table
    ELSE LET event == webhook.events[i]
         IN  IF ~isValidEvent(event)
             THEN registerEvents(table, webhook, i + 1)
             ELSE registerEvents(pushTarget(table, event, webhook), webhook, i + 1)

\* for (const webhook of options.webhooks) { ... }, from the w-th webhook on
RECURSIVE registerWebhooks(_, _, _)
registerWebhooks(table, webhooks, w) ==
    IF w > Len(webhooks)
    THEN table
    ELSE registerWebhooks(registerEvents(table, webhooks[w], 1), webhooks, w + 1)

\* the logger.warning calls of the two loops, in order
RECURSIVE warnedEvents(_, _, _)
warnedEvents(webhooks, w, i) ==
    IF w > Len(webhooks)
    THEN << >>
    ELSE IF i > Len(webhooks[w].events)
         THEN warnedEvents(webhooks, w + 1, 1)
         ELSE IF ~isValidEvent(webhooks[w].events[i])
              THEN << webhooks[w].events[i] >> \o warnedEvents(webhooks, w, i + 1)
              ELSE warnedEvents(webhooks, w, i + 1)

\* the mutant of subscribe: the synthetic name is replaced by the trigger's name
\* and not remembered
subscribeForgetsAlias(event) ==
    IF Includes(CUSTOM_EVENTS, event)
    THEN [event |-> CUSTOM_EVENT_MAPPING[event], customEventName |-> Undefined]
    ELSE [event |-> event, customEventName |-> Undefined]

\* subscribe(event): the emitter registration it makes
subscribe(event) ==
    IF Includes(CUSTOM_EVENTS, event)
    THEN [event |-> CUSTOM_EVENT_MAPPING[event], customEventName |-> event]
    ELSE [event |-> event, customEventName |-> Undefined]

\* wallet.getAttribute("delegate.username")
getUsername(wallet) ==
    wallet.username

\* activeDelegates.map((wallet) => wallet.getAttribute("delegate.username"))
RECURSIVE mapUsernames(_)
mapUsernames(wallets) ==
    IF wallets = << >>
    THEN << >>
    ELSE << getUsername(Head(wallets)) >> \o mapUsernames(Tail(wallets))

\* getActiveDelegates(): [] when the trigger answers nothing
getActiveDelegates(answer) ==
    IF answer.none THEN << >> ELSE mapUsernames(answer.wallets)

----------------------------------------------------------------------------
(* Template arguments and the collaborators of the transforms *)

Str(s) ==
    [t |-> "string", v |-> << s >>]

Arr(names) ==
    [t |-> "array", v |-> names]

\* the { vote, unvote } object of the vote transforms; an absent key is Undefined
VoteObj(vote, unvote) ==
    [t |-> "object", v |-> << vote, unvote >>]

\* a function value, as in [os.hostname] of forgerStarted
Fn(name) ==
    [t |-> "function", v |-> << name >>]

UndefinedArg ==
    [t |-> "undefined", v |-> << >>]

\* os.hostname()
Hostname ==
    "node-1"

\* walletRepository.findByPublicKey(key): the wallets of the modelled ledger
findByPublicKey(key) ==
    CASE key = "pkVoter" -> [address |-> "AVoter", balance |-> "150000000", username |-> Undefined]
      [] key = "pkD1"    -> [address |-> "AD1", balance |-> "0", username |-> "alice"]
      [] key = "pkD2"    -> [address |-> "AD2", balance |-> "0", username |-> "bob"]
      [] OTHER           -> [address |-> "A?", balance |-> "0", username |-> Undefined]

\* CryptoUtils.formatSatoshi(balance)
formatSatoshi(balance) ==
    CASE balance = "150000000" -> "1.5 ARK"
      [] balance = "0"         -> "0 ARK"
      [] OTHER                 -> "? ARK"

\* vote.startsWith(sign)
startsWith(vote, sign) ==
    vote[1] = sign

\* vote.replace(sign, ""): the key without its sign; a key that keeps another sign
\* is no key of the ledger
stripSign(vote, sign) ==
    IF vote[1] = sign THEN vote[2] ELSE "signed-key"

\* the data of an event occurrence; the fields an event does not carry are Undefined
EventData(id, delegate, senderPublicKey, votes, username) ==
    [ id |-> id, delegate |-> delegate, senderPublicKey |-> senderPublicKey,
      votes |-> votes, username |-> username ]

NoData ==
    EventData(Undefined, << "", "" >>, Undefined, << >>, Undefined)

\* what a transform hands back: null, an argument list, or a thrown error
Null ==
    [kind |-> "null", args |-> << >>]

Args(list) ==
    [kind |-> "args", args |-> list]

Threw ==
    [kind |-> "threw", args |-> << >>]

Pending ==
    [kind |-> "pending", args |-> << >>]

----------------------------------------------------------------------------
(* The transforms of service.ts, lines 216-342 *)

\* the wallet a for-loop over votes leaves in a variable: the last vote with the sign
RECURSIVE lastWithSign(_, _, _)
lastWithSign(votes, sign, found) ==
    IF votes = << >>
    THEN found
    ELSE lastWithSign(Tail(votes), sign,
                      IF startsWith(Head(votes), sign)
                      THEN stripSign(Head(votes), sign)
                      ELSE found)

walletVote(data) ==
    IF data.senderPublicKey = Undefined
    THEN Threw
    ELSE LET voterWallet == findByPublicKey(data.senderPublicKey)
         IN  IF Len(data.votes) > 1
             THEN LET voted == lastWithSign(data.votes, "+", Undefined)
                      unvoted == lastWithSign(data.votes, "-", Undefined)
                  IN  IF voted = Undefined \/ unvoted = Undefined
                      THEN Threw
                      ELSE Args(<< Str(voterWallet.address),
                                   VoteObj(findByPublicKey(voted).username,
                                           findByPublicKey(unvoted).username),
                                   Str(formatSatoshi(voterWallet.balance)),
                                   Str(data.id) >>)
             ELSE Args(<< Str(voterWallet.address),
                          VoteObj(findByPublicKey(stripSign(data.delegate, "+")).username,
                                  Undefined),
                          Str(formatSatoshi(voterWallet.balance)),
                          Str(data.id) >>)

walletUnvote(data) ==
    IF data.senderPublicKey = Undefined
    THEN Threw
    ELSE LET delegateWallet == findByPublicKey(stripSign(data.delegate, "-"))
             voterWallet == findByPublicKey(data.senderPublicKey)
         IN  Args(<< Str(voterWallet.address),
                     VoteObj(Undefined, delegateWallet.username),
                     Str(formatSatoshi(voterWallet.balance)),
                     Str(data.id) >>)

forgerMissing(data) ==
    Args(<< Str(Hostname), Str(data.username) >>)

forgerFailed(data) ==
    Args(<< Str(Hostname), Str(data.id) >>)

\* returns the function os.hostname itself, not its result
forgerStarted(data) ==
    Args(<< Fn("hostname") >>)

blockForged(data) ==
    Args(<< Str(Hostname), Str(data.id) >>)

roundCreated(data) ==
    Args(<< Arr(data.votes) >>)

delegateRegistered(data) ==
    Args(<< IF data.username = Undefined THEN UndefinedArg ELSE Str(data.username) >>)

\* the mutant of delegateResigned: no check of the sender public key
delegateResignedUnchecked(data) ==
    Args(<< Str(findByPublicKey(data.senderPublicKey).username) >>)

delegateResigned(data) ==
    IF Falsy(data.senderPublicKey)
    THEN Null
    ELSE Args(<< Str(findByPublicKey(data.senderPublicKey).username) >>)

\* handlers[name](data) for every handler but activedelegateschanged
Transform(name, data) ==
    CASE name = "wallet.vote"         -> walletVote(data)
      [] name = "wallet.unvote"       -> walletUnvote(data)
      [] name = "forger.missing"      -> forgerMissing(data)
      [] name = "forger.failed"       -> forgerFailed(data)
      [] name = "forger.started"      -> forgerStarted(data)
      [] name = "block.forged"        -> blockForged(data)
      [] name = "round.created"       -> roundCreated(data)
      [] name = "delegate.registered" -> delegateRegistered(data)
      [] name = "delegate.resigned"   -> delegateResigned(data)
      [] OTHER                        -> Threw

----------------------------------------------------------------------------
(* The message templates of src/unnamed/part_000.  A template literal is    *)
(* the sequence of its literal pieces and interpolated values.              *)

\* the i-th positional parameter of a template: undefined when not passed
Arg(args, i) ==
    IF i <= Len(args) THEN args[i] ELSE UndefinedArg

RECURSIVE Join(_, _)
Join(names, sep) ==
    IF names = << >> THEN << >>
    ELSE IF Len(names) = 1 THEN << names[1] >>
    ELSE << names[1], sep >> \o Join(Tail(names), sep)

\* `${value}`
Show(val) ==
    CASE val.t = "string"    -> val.v
      [] val.t = "array"     -> Join(val.v, ",")
      [] val.t = "object"    -> << "[object Object]" >>
      [] val.t = "function"  -> << "function ", val.v[1], "() { [native code] }" >>
      [] OTHER               -> << "undefined" >>

\* data.vote and data.unvote: undefined on anything but the vote object
VoteOf(val) ==
    IF val.t = "object" THEN val.v[1] ELSE Undefined

UnvoteOf(val) ==
    IF val.t = "object" THEN val.v[2] ELSE Undefined

\* value.length === 1 (the strings and functions passed here have another length)
LengthIsOne(val) ==
    val.t = "array" /\ Len(val.v) = 1

\* delegates.map((delegate) => `- ${delegate}\n`).join("")
RECURSIVE Bullets(_)
Bullets(names) ==
    IF names = << >> THEN << >>
    ELSE << "- ", Head(names), "\n" >> \o Bullets(Tail(names))

Text(pieces) ==
    [threw |-> FALSE, text |-> pieces]

TypeError ==
    [threw |-> TRUE, text |-> << >>]

\* the "wallet.vote" template; b is the platform's bold marker, lead the text
\* before the address (slack's single-vote line lacks the opening marker)
voteTemplate(a, b, lead) ==
    IF Arg(a, 2).t = "undefined"
    THEN TypeError
    ELSE IF Falsy(UnvoteOf(Arg(a, 2)))
         THEN Text(<< "(up) ", lead >> \o Show(Arg(a, 1)) \o << b, " voted for ", b,
                      VoteOf(Arg(a, 2)), b, " with ", b >> \o Show(Arg(a, 3))
                   \o << b, ". [Open transaction](<" >> \o Show(Arg(a, 5))
                   \o Show(Arg(a, 4)) \o << ">)" >>)
         ELSE Text(<< "(up) ", b >> \o Show(Arg(a, 1)) \o << b, " switched vote from ", b,
                      UnvoteOf(Arg(a, 2)), b, " to ", b, VoteOf(Arg(a, 2)), b,
                      " with ", b >> \o Show(Arg(a, 3))
                   \o << b, ". [Open transaction](<" >> \o Show(Arg(a, 5))
                   \o Show(Arg(a, 4)) \o << ">)" >>)

unvoteTemplate(a, b) ==
    IF Arg(a, 2).t = "undefined"
    THEN TypeError
    ELSE Text(<< "(down) ", b >> \o Show(Arg(a, 1)) \o << b, " unvoted ", b,
                 UnvoteOf(Arg(a, 2)), b, " with ", b >> \o Show(Arg(a, 3))
              \o << b, ". [Open transaction](<" >> \o Show(Arg(a, 5))
              \o Show(Arg(a, 4)) \o << ">)" >>)

\* the list form of "activedelegateschanged" of discord and slack
changedListTemplate(a, b) ==
    IF Arg(a, 2).t # "array" \/ Arg(a, 1).t # "array"
    THEN TypeError
    ELSE Text(<< "(alert) ", b, "Changes in forging positions", b, "\n",
                 b, "Moved out of a forging spot:", b, "\n" >>
              \o Bullets(Arg(a, 2).v)
              \o << b, "Moved into a forging spot:", b, "\n" >>
              \o Bullets(Arg(a, 1).v))

discord(event, a) ==
    CASE event = "wallet.vote"   -> voteTemplate(a, "**", "**")
      [] event = "wallet.unvote" -> unvoteTemplate(a, "**")
      [] event = "forger.missing" ->
            Text(<< "(warn) **" >> \o Show(Arg(a, 2)) \o << "** failed to forge in this round" >>)
      [] event = "forger.failed" ->
            Text(<< "(warn) Your forger failed to forge in this slot on **" >>
                 \o Show(Arg(a, 1)) \o << "**: " >> \o Show(Arg(a, 2)))
      [] event = "forger.started" ->
            Text(<< "Forger started on **" >> \o Show(Arg(a, 1)) \o << "**" >>)
      [] event = "block.forged" ->
            Text(<< "Forged a new block **" >> \o Show(Arg(a, 2)) \o << "** on **" >>
                 \o Show(Arg(a, 1)) \o << "**" >>)
      [] event = "round.created" ->
            Text(<< "Round created with following active delegates: ", "JSON" >>
                 \o Arg(a, 1).v)
      [] event = "activedelegateschanged" ->
            IF Arg(a, 1).t \in {"undefined"}
            THEN TypeError
            ELSE IF LengthIsOne(Arg(a, 1)) /\ Arg(a, 2).t = "undefined"
            THEN TypeError
            ELSE IF LengthIsOne(Arg(a, 1)) /\ LengthIsOne(Arg(a, 2))
            THEN Text(<< "(alert) **Changes in forging positions**", "\n", "(swap) **",
                         Arg(a, 1).v[1], "** replaced **", Arg(a, 2).v[1],
                         "** as a forging delegate." >>)
            ELSE changedListTemplate(a, "**")
      [] event = "delegate.registered" ->
            Text(<< "(new) New delegate registered: **" >> \o Show(Arg(a, 1)) \o << "**" >>)
      [] event = "delegate.resigned" ->
            Text(<< "**" >> \o Show(Arg(a, 1)) \o << "** resigned" >>)
      [] OTHER -> TypeError

slack(event, a) ==
    CASE event = "wallet.vote"   -> voteTemplate(a, "*", "")
      [] event = "wallet.unvote" -> unvoteTemplate(a, "*")
      [] event = "forger.missing" ->
            Text(<< "(warn) *" >> \o Show(Arg(a, 2)) \o << "* failed to forge in this round" >>)
      [] event = "forger.failed" ->
            Text(<< "(warn) Your delegate failed to forge in this slot on *" >>
                 \o Show(Arg(a, 1)) \o << "*: " >> \o Show(Arg(a, 2)))
      [] event = "forger.started" ->
            Text(<< "Forger started on *" >> \o Show(Arg(a, 1)) \o << "*" >>)
      [] event = "block.forged" ->
            Text(<< "Forged a new block *" >> \o Show(Arg(a, 2)) \o << "* on *" >>
                 \o Show(Arg(a, 1)) \o << "*" >>)
      [] event = "round.created" ->
            Text(<< "Round created with following active delegates: ", "JSON" >>
                 \o Arg(a, 1).v)
      [] event = "activedelegateschanged" -> changedListTemplate(a, "*")
      [] event = "delegate.registered" ->
            Text(<< "(new) New delegate registered: *" >> \o Show(Arg(a, 1)) \o << "*" >>)
      [] event = "delegate.resigned" ->
            Text(<< "*" >> \o Show(Arg(a, 1)) \o << "* resigned" >>)
      [] OTHER -> TypeError

fallback(event, a) ==
    CASE event = "wallet.vote"   -> voteTemplate(a, "", "")
      [] event = "wallet.unvote" -> unvoteTemplate(a, "")
      [] event = "forger.missing" ->
            Text(Show(Arg(a, 2)) \o << " failed to forge in this round" >>)
      [] event = "forger.failed" ->
            Text(<< "Your forger failed to forge in this slot " >>
                 \o Show(Arg(a, 1)) \o << ": " >> \o Show(Arg(a, 2)))
      [] event = "forger.started" ->
            Text(<< "Forger started on " >> \o Show(Arg(a, 1)))
      [] event = "block.forged" ->
            Text(<< "Forged a new block " >> \o Show(Arg(a, 2)) \o << " on " >>
                 \o Show(Arg(a, 1)))
      [] event = "round.created" ->
            Text(<< "Round created with following active delegates: ", "JSON" >>
                 \o Arg(a, 1).v)
      [] event = "activedelegateschanged" ->
            IF Arg(a, 2).t # "array" \/ Arg(a, 1).t # "array"
            THEN TypeError
            ELSE Text(<< "Active delegates changed: " >> \o Join(Arg(a, 2).v, ", ")
                      \o << " replaced by " >> \o Join(Arg(a, 1).v, ", ") \o << "." >>)
      [] event = "delegate.registered" ->
            Text(<< "New delegate registered: " >> \o Show(Arg(a, 1)))
      [] event = "delegate.resigned" ->
            Text(Show(Arg(a, 1)) \o << " resigned" >>)
      [] OTHER -> TypeError

\* messages[platform][event](...data)
messages(platform, event, a) ==
    CASE platform = "discord"  -> discord(event, a)
      [] platform = "slack"    -> slack(event, a)
      [] platform = "fallback" -> fallback(event, a)
      [] OTHER                 -> TypeError

getMessage(platform, event, data) ==
    messages(IF platform = "pushover" THEN "fallback" ELSE platform, event, data)

detectPlatform(endpoint) ==
    IF Includes(endpoint, "hooks.slack.com") THEN "slack"
    ELSE IF Includes(endpoint, "discordapp.com") \/ Includes(endpoint, "discord.com")
         THEN "discord"
    ELSE IF Includes(endpoint, "pushover.net") THEN "pushover"
    ELSE "fallback"

----------------------------------------------------------------------------
(* activeDelegatesChanged(), lines 305-326 *)

\* what the getActiveDelegates trigger answers: nothing (undefined), or the wallets
\* of the chain's active delegates
NoAnswer ==
    [none |-> TRUE, wallets |-> << >>]

Wallets(names) ==
    [none |-> FALSE, wallets |-> [i \in 1..Len(names) |-> [username |-> names[i]]]]

\* previouslyActiveDelegates.filter((x) => !newActiveDelegates.includes(x))
droppedOutDelegates(previous, new) ==
    SelectSeq(previous, LAMBDA x : ~Includes(new, x))

\* the mutant of newDelegates: the current list, unfiltered
newDelegatesUnfiltered(previous, new) ==
    new

\* newActiveDelegates.filter((x) => !previouslyActiveDelegates.includes(x))
newDelegates(previous, new) ==
    SelectSeq(new, LAMBDA x : ~Includes(previous, x))

\* the mutant of nothingChanged: the delegates that dropped out are not looked at
nothingChangedIgnoresDropped(dropped, added) ==
    Len(added) = 0

\* droppedOutDelegates.length === 0 && newDelegates.length === 0
nothingChanged(dropped, added) ==
    Len(dropped) = 0 /\ Len(added) = 0

\* the value the function returns when the trigger answers nothing (line 310)
noDelegatesResult ==
    Args(<< >>)

\* the mutant of activeDelegatesChanged: the baseline is replaced also when the
\* call is suppressed
activeDelegatesChangedAlwaysCaches(previous, cached, answer) ==
    IF answer.none
    THEN [messageData |-> noDelegatesResult, cached |-> cached]
    ELSE LET new == mapUsernames(answer.wallets)
             dropped == droppedOutDelegates(previous, new)
             added == newDelegates(previous, new)
         IN  IF nothingChanged(dropped, added)
             THEN [messageData |-> Null, cached |-> new]
             ELSE [messageData |-> Args(<< Arr(added), Arr(dropped) >>), cached |-> new]

\* the part of activeDelegatesChanged after its await: what it returns, and the
\* baseline it leaves, given the baseline it read before the await, the baseline
\* now and the trigger's answer
activeDelegatesChanged(previous, cached, answer) ==
    IF answer.none
    THEN [messageData |-> noDelegatesResult, cached |-> cached]
    ELSE LET new == mapUsernames(answer.wallets)
             dropped == droppedOutDelegates(previous, new)
             added == newDelegates(previous, new)
         IN  IF nothingChanged(dropped, added)
             THEN [messageData |-> Null, cached |-> cached]
             ELSE [messageData |-> Args(<< Arr(added), Arr(dropped) >>), cached |-> new]

----------------------------------------------------------------------------
(* The loop of handle(), lines 161-180 *)

\* !webhook.payload.token || !webhook.payload.user
credentialsMissing(payload) ==
    Falsy(Prop(payload, "token")) \/ Falsy(Prop(payload, "user"))

\* payload[webhook.payload.msg] = message, on the object `payload` names now
writeMessage(objs, webhook, text) ==
    [objs EXCEPT ![Len(objs)] = (Prop(webhook.payload, "msg") :> text) @@ @]

\* payload = { ...payload, token: ..., user: ... }: a new object
spreadCredentials(objs, webhook) ==
    Append(objs, ("token" :> Prop(webhook.payload, "token"))
                 @@ ("user" :> Prop(webhook.payload, "user"))
                 @@ objs[Len(objs)])

\* axios.post(webhook.endpoint, payload): the request and the object it was given
post(webhook, i, objs) ==
    [ endpoint |-> webhook.endpoint, target |-> i, ref |-> Len(objs),
      body |-> objs[Len(objs)], state |-> "pending" ]

\* for (const webhook of webhooks) { ... } from the i-th target on.  objs are the
\* objects the variable `payload` has named, the last one being the current one.
RECURSIVE fanOut(_, _, _, _, _, _, _)
fanOut(webhooks, i, name, messageData, objs, requests, errors) ==
    IF i > Len(webhooks)
    THEN [threw |-> FALSE, requests |-> requests, errors |-> errors, objs |-> objs]
    ELSE LET webhook == webhooks[i]
             platform == detectPlatform(webhook.endpoint)
             message == getMessage(platform, name, messageData)
         IN  IF message.threw
             THEN [threw |-> TRUE, requests |-> requests, errors |-> errors, objs |-> objs]
             ELSE LET written == writeMessage(objs, webhook, message.text)
                  IN  IF platform = "pushover"
                      THEN IF credentialsMissing(webhook.payload)
                           THEN fanOut(webhooks, i + 1, name, messageData, written,
                                       requests, Append(errors, "pushover"))
                           ELSE LET spread == spreadCredentials(written, webhook)
                                IN  fanOut(webhooks, i + 1, name, messageData, spread,
                                           Append(requests, post(webhook, i, spread)),
                                           errors)
                      ELSE fanOut(webhooks, i + 1, name, messageData, written,
                                  Append(requests, post(webhook, i, written)), errors)

\* the body a request carries if the HTTP client serialises the object it was given
\* only after the loop has ended, as a client that prepares the request in a later
\* microtask does
lateBody(result, k) ==
    result.objs[result.requests[k].ref]

\* the mutant of isVoteSwitchUnvote: no unvote is taken for a vote switch
isVoteSwitchUnvoteNever(name, data) ==
    FALSE

\* name === VoteEvent.Unvote && (data.transaction?.asset?.votes ?? []).length > 1
isVoteSwitchUnvote(name, data) ==
    name = "wallet.unvote" /\ Len(data.votes) > 1

\* the mutant of isPaced: the pacing delay applies to every event
isPacedAlways(name) ==
    TRUE

\* name === VoteEvent.Vote: the pacing delay applies
isPaced(name) ==
    name = "wallet.vote"

----------------------------------------------------------------------------
(* One invocation of handle(), lines 130-191, between its suspension points *)

Slots ==
    {1, 2}

NoDiff ==
    [before |-> << >>, after |-> << >>, answer |-> NoAnswer]

IdleTask ==
    [ pc |-> "idle",                      \* where the invocation stands
      outcome |-> "none",                 \* how it ended
      event |-> Undefined,                \* the name the emitter delivered it under
      customEventName |-> Undefined,      \* the closure's customEventName
      name |-> Undefined,                 \* the local `name`
      data |-> NoData,                    \* the local `data`
      webhooks |-> << >>,                 \* the local `webhooks`
      previouslyActiveDelegates |-> << >>,\* the local of activeDelegatesChanged
      overlapped |-> FALSE,               \* history: another diff was in flight meanwhile
      diff |-> NoDiff,                    \* history: the baseline and the answer of its diff
      sequel |-> FALSE,                   \* history: see TriggerAnswers
      messageData |-> Pending,            \* the local `messageData`
      requests |-> << >>,                 \* the local `requests`, with each promise's state
      lateBodies |-> << >>,               \* history: each request's object when the loop ended
      errors |-> << >>,                   \* the logger.error calls it made, in order
      pendingAtCatch |-> 0,               \* history: requests still pending at the catch
      failedInDelay |-> FALSE ]           \* history: a request was rejected during the sleep

\* the payload object the emitter hands to handle(): { name, data }
Envelope(event, data) ==
    ("name" :> event) @@ ("data" :> data)

InFlight(task) ==
    task.pc \in {"await_trigger", "await_transform", "sleep", "await_all"}

Free(task) ==
    ~InFlight(task)

DiffInFlight(task) ==
    InFlight(task) /\ task.name = "activedelegateschanged"

\* a bounded run spends fuel on each occurrence and each change of the chain
CanSpend(kind) ==
    ~fuel.bounded \/ fuel[kind] > 0

Spent(kind) ==
    IF fuel.bounded THEN [fuel EXCEPT ![kind] = @ - 1] ELSE fuel

NoLastDiff ==
    [valid |-> FALSE, task |-> 1, overlapped |-> FALSE, answer |-> NoAnswer]

\* lines 131-154: from the call of handle() to its first await
Handle(t, l, data) ==
    /\ phase = "listening"
    /\ CanSpend("dispatches")
    /\ Free(tasks[t])
    /\ l \in listeners
    /\ LET name == IF l.customEventName = "activedelegateschanged"
                   THEN "activedelegateschanged"
                   ELSE l.event
           started == [IdleTask EXCEPT !.event = l.event,
                                       !.customEventName = l.customEventName,
                                       !.data = data]
       IN  IF isVoteSwitchUnvote(l.event, data)
           THEN tasks' = [tasks EXCEPT ![t] =
                    [started EXCEPT !.pc = "done", !.outcome = "unvote_switch",
                                    !.name = l.event]]
           ELSE IF name \notin HandlerNames
           THEN tasks' = [tasks EXCEPT ![t] =
                    [started EXCEPT !.pc = "done", !.outcome = "no_handler",
                                    !.name = name, !.webhooks = events[name],
                                    !.errors = << "no_handler" >>]]
           ELSE IF name = "activedelegateschanged"
           THEN tasks' = [u \in Slots |->
                    IF u = t
                    THEN [started EXCEPT
                            !.pc = "await_trigger", !.name = name,
                            !.webhooks = events[name],
                            !.previouslyActiveDelegates = LAST_ACTIVE_DELEGATES_CACHED,
                            !.overlapped = \E v \in Slots \ {t} : DiffInFlight(tasks[v])]
                    ELSE IF DiffInFlight(tasks[u])
                         THEN [tasks[u] EXCEPT !.overlapped = TRUE]
                         ELSE tasks[u]]
           ELSE tasks' = [tasks EXCEPT ![t] =
                    [started EXCEPT !.pc = "await_transform", !.name = name,
                                    !.webhooks = events[name],
                                    !.messageData = Transform(name, data)]]
    /\ lastDiff' =
            IF /\ l.customEventName = "activedelegateschanged"
               /\ lastDiff.valid
               /\ lastDiff.task # t
               /\ DiffInFlight(tasks[lastDiff.task])
               /\ tasks[lastDiff.task].pc # "await_trigger"
            THEN [lastDiff EXCEPT !.overlapped = TRUE]
            ELSE lastDiff
    /\ fuel' = Spent("dispatches")
    /\ UNCHANGED << phase, options, events, explorerTxUrl, listeners, warnings,
                    LAST_ACTIVE_DELEGATES_CACHED, activeDelegates, startupDelegates,
                    changedSinceObserved, lastNotified >>

\* lines 307-325: the trigger answers and activeDelegatesChanged runs to its return.
\* History: the task is a sequel when the diff before it and this one each ran with
\* no other diff in flight, the chain's list has not changed between the two and
\* the trigger gave both the same answer.
TriggerAnswers(t, answer) ==
    /\ tasks[t].pc = "await_trigger"
    /\ answer \in { NoAnswer, Wallets(activeDelegates) }
    /\ LET r == activeDelegatesChanged(tasks[t].previouslyActiveDelegates,
                                       LAST_ACTIVE_DELEGATES_CACHED, answer)
       IN  /\ LAST_ACTIVE_DELEGATES_CACHED' = r.cached
           /\ tasks' = [tasks EXCEPT ![t] =
                    [@ EXCEPT !.pc = "await_transform",
                              !.messageData = r.messageData,
                              !.diff = [ before |-> LAST_ACTIVE_DELEGATES_CACHED,
                                         after |-> r.cached,
                                         answer |-> answer ],
                              !.sequel = /\ lastDiff.valid
                                         /\ ~lastDiff.overlapped
                                         /\ ~tasks[t].overlapped
                                         /\ ~changedSinceObserved
                                         /\ lastDiff.answer = answer]]
           /\ lastNotified' =
                    IF r.messageData.kind = "args" /\ ~answer.none
                    THEN mapUsernames(answer.wallets)
                    ELSE lastNotified
    /\ lastDiff' = [ valid |-> TRUE, task |-> t, overlapped |-> tasks[t].overlapped,
                     answer |-> answer ]
    /\ changedSinceObserved' = FALSE
    /\ UNCHANGED << phase, options, events, explorerTxUrl, listeners, warnings,
                    activeDelegates, startupDelegates, fuel >>

\* the mutant of Resume: the loop writes the message into the configured payload
\* of each target, which the subscription table shares
ResumeWritesIntoTable(t) ==
    /\ tasks[t].pc = "await_transform"
    /\ LET task == tasks[t]
           pushed == Append(task.messageData.args, Str(explorerTxUrl))
           r == fanOut(task.webhooks, 1, task.name, pushed,
                       << Envelope(task.event, task.data) >>, << >>, task.errors)
           written == [i \in 1..Len(task.webhooks) |->
                        [task.webhooks[i] EXCEPT
                            !.payload = (Prop(task.webhooks[i].payload, "msg") :> "message") @@ @]]
       IN  /\ tasks' = [tasks EXCEPT ![t] =
                CASE task.messageData.kind = "threw" ->
                        [task EXCEPT !.pc = "rejected", !.outcome = "transform_threw"]
                  [] task.messageData.kind = "null" ->
                        [task EXCEPT !.pc = "done", !.outcome = "suppressed"]
                  [] OTHER ->
                        [task EXCEPT
                            !.messageData = Args(pushed),
                            !.requests = r.requests,
                            !.lateBodies = [k \in 1..Len(r.requests) |-> lateBody(r, k)],
                            !.errors = r.errors,
                            !.pc = IF r.threw THEN "rejected"
                                   ELSE IF isPaced(task.name) THEN "sleep"
                                   ELSE "await_all",
                            !.outcome = IF r.threw THEN "render_threw" ELSE "none"]]
           /\ events' = IF task.messageData.kind = "args" /\ ~r.threw
                         THEN [events EXCEPT ![task.name] = written]
                         ELSE events
    /\ UNCHANGED << phase, options, explorerTxUrl, listeners, warnings,
                    LAST_ACTIVE_DELEGATES_CACHED, activeDelegates, startupDelegates,
                    changedSinceObserved, lastNotified, lastDiff, fuel >>

\* lines 155-186: from the return of the transform to the await in the try block
Resume(t) ==
    /\ tasks[t].pc = "await_transform"
    /\ LET task == tasks[t]
           pushed == Append(task.messageData.args, Str(explorerTxUrl))
           r == fanOut(task.webhooks, 1, task.name, pushed,
                       << Envelope(task.event, task.data) >>, << >>, task.errors)
       IN  tasks' = [tasks EXCEPT ![t] =
                CASE task.messageData.kind = "threw" ->
                        [task EXCEPT !.pc = "rejected", !.outcome = "transform_threw"]
                  [] task.messageData.kind = "null" ->
                        [task EXCEPT !.pc = "done", !.outcome = "suppressed"]
                  [] OTHER ->
                        [task EXCEPT
                            !.messageData = Args(pushed),
                            !.requests = r.requests,
                            !.lateBodies = [k \in 1..Len(r.requests) |-> lateBody(r, k)],
                            !.errors = r.errors,
                            !.pc = IF r.threw THEN "rejected"
                                   ELSE IF isPaced(task.name) THEN "sleep"
                                   ELSE "await_all",
                            !.outcome = IF r.threw THEN "render_threw" ELSE "none"]]
    /\ UNCHANGED << phase, options, events, explorerTxUrl, listeners, warnings,
                    LAST_ACTIVE_DELEGATES_CACHED, activeDelegates, startupDelegates,
                    changedSinceObserved, lastNotified, lastDiff, fuel >>

\* line 185: AppUtils.sleep(1000) resolves
SleepElapses(t) ==
    /\ tasks[t].pc = "sleep"
    /\ tasks' = [tasks EXCEPT ![t] = [@ EXCEPT !.pc = "await_all"]]
    /\ UNCHANGED << phase, options, events, explorerTxUrl, listeners, warnings,
                    LAST_ACTIVE_DELEGATES_CACHED, activeDelegates, startupDelegates,
                    changedSinceObserved, lastNotified, lastDiff, fuel >>

\* the endpoint answers the k-th request of a handler that has not returned yet
Settle(t, k, state) ==
    /\ tasks[t].pc \in {"sleep", "await_all"}
    /\ k \in 1..Len(tasks[t].requests)
    /\ tasks[t].requests[k].state = "pending"
    /\ tasks' = [tasks EXCEPT ![t] =
            [@ EXCEPT !.requests[k].state = state,
                      !.failedInDelay = @ \/ (tasks[t].pc = "sleep" /\ state = "rejected")]]
    /\ UNCHANGED << phase, options, events, explorerTxUrl, listeners, warnings,
                    LAST_ACTIVE_DELEGATES_CACHED, activeDelegates, startupDelegates,
                    changedSinceObserved, lastNotified, lastDiff, fuel >>

\* line 187: Promise.all(requests) fulfils, every request having been fulfilled
AllFulfilled(t) ==
    /\ tasks[t].pc = "await_all"
    /\ \A k \in 1..Len(tasks[t].requests) : tasks[t].requests[k].state = "fulfilled"
    /\ tasks' = [tasks EXCEPT ![t] = [@ EXCEPT !.pc = "done", !.outcome = "delivered"]]
    /\ UNCHANGED << phase, options, events, explorerTxUrl, listeners, warnings,
                    LAST_ACTIVE_DELEGATES_CACHED, activeDelegates, startupDelegates,
                    changedSinceObserved, lastNotified, lastDiff, fuel >>

\* the mutant of catchError: one error per rejected request
catchErrorPerRequest(task) ==
    task.errors \o
        [k \in 1..Cardinality({j \in 1..Len(task.requests) :
                                  task.requests[j].state = "rejected"}) |-> "delivery"]

\* lines 188-190: the catch block logs the rejection
catchError(task) ==
    Append(task.errors, "delivery")

\* lines 187-190: Promise.all(requests) rejects, a request having been rejected
CatchRejection(t) ==
    /\ tasks[t].pc = "await_all"
    /\ \E k \in 1..Len(tasks[t].requests) : tasks[t].requests[k].state = "rejected"
    /\ tasks' = [tasks EXCEPT ![t] =
            [@ EXCEPT !.pc = "done", !.outcome = "delivery_failed",
                      !.errors = catchError(tasks[t]),
                      !.pendingAtCatch =
                            Cardinality({k \in 1..Len(tasks[t].requests) :
                                            tasks[t].requests[k].state = "pending"})]]
    /\ UNCHANGED << phase, options, events, explorerTxUrl, listeners, warnings,
                    LAST_ACTIVE_DELEGATES_CACHED, activeDelegates, startupDelegates,
                    changedSinceObserved, lastNotified, lastDiff, fuel >>

----------------------------------------------------------------------------
(* listen() and the collaborator *)

\* lines 63-90
Listen(opts, answer) ==
    /\ phase = "constructed"
    /\ answer \in { NoAnswer, Wallets(activeDelegates) }
    /\ phase' = "listening"
    /\ options' = opts
    /\ LAST_ACTIVE_DELEGATES_CACHED' = getActiveDelegates(answer)
    /\ startupDelegates' = getActiveDelegates(answer)
    /\ lastNotified' = getActiveDelegates(answer)
    /\ explorerTxUrl' = opts.explorerTx
    /\ events' = registerWebhooks(events, opts.webhooks, 1)
    /\ warnings' = warnedEvents(opts.webhooks, 1, 1)
    /\ listeners' = { subscribe(event) : event \in DOMAIN events' }
    /\ UNCHANGED << activeDelegates, changedSinceObserved, lastDiff, fuel, tasks >>

\* the chain moves on to another list of active delegates
DelegatesChange(names) ==
    /\ phase = "listening"
    /\ CanSpend("changes")
    /\ fuel' = Spent("changes")
    /\ names # activeDelegates
    /\ activeDelegates' = names
    /\ changedSinceObserved' = TRUE
    /\ UNCHANGED << phase, options, events, explorerTxUrl, listeners, warnings,
                    LAST_ACTIVE_DELEGATES_CACHED, startupDelegates, lastNotified,
                    lastDiff, tasks >>

----------------------------------------------------------------------------
(* Inputs: event occurrences, webhook targets, configurations *)

NoDelegate ==
    << "", "" >>

VoteDirectives ==
    [ single |-> << << "+", "pkD1" >> >>,
      switch |-> << << "-", "pkD2" >>, << "+", "pkD1" >> >>,
      unvote |-> << << "-", "pkD2" >> >> ]

\* the data the node emits with an occurrence of the event
PayloadsFor(event) ==
    CASE event = "wallet.vote" ->
            { EventData("tx1", << "+", "pkD1" >>, "pkVoter", VoteDirectives.single, Undefined),
              EventData("tx2", << "+", "pkD1" >>, "pkVoter", VoteDirectives.switch, Undefined) }
      [] event = "wallet.unvote" ->
            { EventData("tx3", << "-", "pkD2" >>, "pkVoter", VoteDirectives.unvote, Undefined),
              EventData("tx2", << "-", "pkD2" >>, "pkVoter", VoteDirectives.switch, Undefined) }
      [] event = "delegate.resigned" ->
            { EventData("tx4", NoDelegate, "pkD1", << >>, Undefined),
              EventData("tx4", NoDelegate, Undefined, << >>, Undefined) }
      [] event = "delegate.registered" ->
            { EventData("tx5", NoDelegate, "pkD1", << >>, "alice") }
      [] event = "forger.missing" ->
            { EventData(Undefined, NoDelegate, Undefined, << >>, "alice") }
      [] event = "forger.failed" ->
            { EventData("slot taken", NoDelegate, Undefined, << >>, Undefined) }
      [] event = "round.created" ->
            { EventData(Undefined, NoDelegate, Undefined, << "alice", "bob" >>, Undefined) }
      [] OTHER ->
            { EventData("block1", NoDelegate, Undefined, << >>, Undefined) }

ExplorerTx ==
    "https://explorer.ark.io/transaction/"

SlackTarget ==
    [ endpoint |-> << "https:", "hooks.slack.com", "services", "T1" >>,
      payload |-> ("msg" :> "text") ]

DiscordTarget ==
    [ endpoint |-> << "https:", "discord.com", "api", "webhooks", "1" >>,
      payload |-> ("msg" :> "content") ]

FallbackTarget ==
    [ endpoint |-> << "https:", "example.org", "hook" >>,
      payload |-> ("msg" :> "text") ]

PushTarget ==
    [ endpoint |-> << "https:", "api", "pushover.net", "1", "messages.json" >>,
      payload |-> ("msg" :> "message") @@ ("token" :> "tok") @@ ("user" :> "usr") ]

PushNoUser ==
    [ endpoint |-> << "https:", "api", "pushover.net", "1", "messages.json" >>,
      payload |-> ("msg" :> "message") @@ ("token" :> "tok") ]

PushNoToken ==
    [ endpoint |-> << "https:", "api", "pushover.net", "1", "messages.json" >>,
      payload |-> ("msg" :> "message") @@ ("user" :> "usr") ]

TargetKinds ==
    { SlackTarget, DiscordTarget, FallbackTarget, PushTarget, PushNoUser, PushNoToken }

Webhook(target, eventNames) ==
    [ endpoint |-> target.endpoint, payload |-> target.payload, events |-> eventNames ]

Options(webhooks) ==
    [ explorerTx |-> ExplorerTx, webhooks |-> webhooks ]

NoFuel ==
    [bounded |-> FALSE, dispatches |-> 0, changes |-> 0]

Fuel(dispatches, changes) ==
    [bounded |-> TRUE, dispatches |-> dispatches, changes |-> changes]

InitWith(lists, f) ==
    /\ phase = "constructed"
    /\ options = Options(<< >>)
    /\ events = EmptyObject
    /\ explorerTxUrl = ""
    /\ listeners = {}
    /\ warnings = << >>
    /\ LAST_ACTIVE_DELEGATES_CACHED = << >>
    /\ activeDelegates \in lists
    /\ startupDelegates = << >>
    /\ changedSinceObserved = FALSE
    /\ lastNotified = << >>
    /\ lastDiff = NoLastDiff
    /\ fuel = f
    /\ tasks = [t \in Slots |-> IdleTask]

Answers ==
    { NoAnswer, Wallets(activeDelegates) }

Outcomes ==
    { "fulfilled", "rejected" }

----------------------------------------------------------------------------
(* Spec: one occurrence at a time, dispatched to every list of targets *)

MaxTargets ==
    2

\* the names every webhook of a uniform configuration subscribes to
SpecEvents ==
    << "wallet.vote", "wallet.unvote", "bogus.event", "activedelegateschanged",
       "block.applied", "block.forged", "delegate.resigned" >>

\* configurations whose webhooks all subscribe to the same names
UniformOptions ==
    { Options([i \in 1..Len(kinds) |-> Webhook(kinds[i], SpecEvents)]) :
        kinds \in SeqsUpTo(TargetKinds, MaxTargets) \ { << >> } }

\* configurations of two webhooks that share one name only
MixedOptions ==
    { Options(<< Webhook(first, << "wallet.vote", "delegate.resigned" >>),
                 Webhook(second, << "wallet.unvote", "wallet.vote" >>) >>) :
        first \in TargetKinds, second \in TargetKinds }

SpecOptions ==
    UniformOptions \cup MixedOptions

Init ==
    InitWith({ << "alice" >> }, NoFuel)

Next ==
    \/ /\ phase = "constructed"
       /\ \E opts \in SpecOptions : \E answer \in Answers : Listen(opts, answer)
    \/ \E l \in listeners : \E data \in PayloadsFor(l.event) : Handle(1, l, data)
    \/ \E answer \in Answers : TriggerAnswers(1, answer)
    \/ Resume(1)
    \/ SleepElapses(1)
    \/ \E k \in 1..MaxTargets : \E state \in Outcomes : Settle(1, k, state)
    \/ AllFulfilled(1)
    \/ CatchRejection(1)

Spec ==
    Init /\ [][Next]_vars

----------------------------------------------------------------------------
(* SpecListen: listen() on every configuration of a few webhooks *)

MaxWebhooks ==
    2

MaxEventsPerWebhook ==
    2

ListenEventNames ==
    { "wallet.vote", "activedelegateschanged", "bogus.event" }

ListenOptions ==
    { Options(webhooks) :
        webhooks \in SeqsUpTo(
            { Webhook(DiscordTarget, names) :
                names \in SeqsUpTo(ListenEventNames, MaxEventsPerWebhook) },
            MaxWebhooks) }

NextListen ==
    /\ phase = "constructed"
    /\ \E opts \in ListenOptions : \E answer \in Answers : Listen(opts, answer)

SpecListen ==
    InitWith({ << "alice" >> }, NoFuel) /\ [][NextListen]_vars

----------------------------------------------------------------------------
(* SpecDiff: one delegate-change occurrence, for every baseline and answer *)

MaxDelegates ==
    3

DelegateNames ==
    { "alice", "bob", "carol", "dave" }

DelegateLists ==
    DistinctSeqsUpTo(DelegateNames, MaxDelegates)

DiffOptions ==
    Options(<< Webhook(DiscordTarget, << "activedelegateschanged" >>) >>)

\* listen() has run and obtained the baseline; the chain has moved on since
InitDiff ==
    /\ phase = "listening"
    /\ options = DiffOptions
    /\ events = registerWebhooks(EmptyObject, DiffOptions.webhooks, 1)
    /\ explorerTxUrl = ExplorerTx
    /\ listeners = { subscribe("activedelegateschanged") }
    /\ warnings = << >>
    /\ LAST_ACTIVE_DELEGATES_CACHED \in DelegateLists
    /\ activeDelegates \in DelegateLists
    /\ startupDelegates = LAST_ACTIVE_DELEGATES_CACHED
    /\ changedSinceObserved = TRUE
    /\ lastNotified = LAST_ACTIVE_DELEGATES_CACHED
    /\ lastDiff = NoLastDiff
    /\ fuel = NoFuel
    /\ tasks = [t \in Slots |-> IdleTask]

NextDiff ==
    \/ /\ ~lastDiff.valid
       /\ \E l \in listeners : \E data \in PayloadsFor(l.event) : Handle(1, l, data)
    \/ \E answer \in Answers : TriggerAnswers(1, answer)
    \/ Resume(1)
    \/ \E state \in Outcomes : Settle(1, 1, state)
    \/ AllFulfilled(1)
    \/ CatchRejection(1)

SpecDiff ==
    InitDiff /\ [][NextDiff]_vars

----------------------------------------------------------------------------
(* SpecRace: a bounded run of delegate-change occurrences in flight together *)

MaxDispatches ==
    2

MaxChanges ==
    1

MaxRaceDelegates ==
    1

RaceNames ==
    { "alice", "bob" }

RaceLists ==
    DistinctSeqsUpTo(RaceNames, MaxRaceDelegates)

RaceOptions ==
    Options(<< Webhook(PushNoUser, << "activedelegateschanged" >>),
               Webhook(DiscordTarget, << "activedelegateschanged" >>) >>)

NextRace ==
    \/ \E answer \in Answers : Listen(RaceOptions, answer)
    \/ \E names \in RaceLists : DelegatesChange(names)
    \/ \E t \in Slots : \E l \in listeners : \E data \in PayloadsFor(l.event) :
            Handle(t, l, data)
    \/ \E t \in Slots : \E answer \in Answers : TriggerAnswers(t, answer)
    \/ \E t \in Slots : Resume(t)
    \/ \E t \in Slots : \E state \in Outcomes : Settle(t, 1, state)
    \/ \E t \in Slots : AllFulfilled(t)
    \/ \E t \in Slots : CatchRejection(t)

SpecRace ==
    InitWith(RaceLists, Fuel(MaxDispatches, MaxChanges)) /\ [][NextRace]_vars

----------------------------------------------------------------------------
(* Properties of listen() *)

\* the [endpoint, payload] entry listen() pushes for a webhook
TargetOf(webhook) ==
    [endpoint |-> webhook.endpoint, payload |-> webhook.payload]

\* the name a listener dispatches under
DispatchName(l) ==
    IF l.customEventName = Undefined THEN l.event ELSE l.customEventName

\* C1: after listen(), no name outside VALID_EVENTS is a key of the subscription
\* table and no listener is registered for such a name, while every valid name of
\* every webhook (also of a webhook that lists an invalid name) has that webhook's
\* target in its list and a listener registered.
C1_OnlyValidEventsRegistered ==
    phase = "listening" =>
        /\ \A name \in DOMAIN events : \E i \in 1..Len(VALID_EVENTS) : VALID_EVENTS[i] = name
        /\ \A l \in listeners :
                /\ DispatchName(l) \in DOMAIN events
                /\ \E i \in 1..Len(VALID_EVENTS) : VALID_EVENTS[i] = DispatchName(l)
        /\ \A w \in 1..Len(options.webhooks) :
                \A i \in 1..Len(options.webhooks[w].events) :
                    LET name == options.webhooks[w].events[i]
                    IN  (\E j \in 1..Len(VALID_EVENTS) : VALID_EVENTS[j] = name) =>
                            /\ name \in DOMAIN events
                            /\ \E k \in 1..Len(events[name]) :
                                    events[name][k] = TargetOf(options.webhooks[w])
                            /\ \E l \in listeners : DispatchName(l) = name

\* a webhook that lists an invalid name before a valid one has been registered
C1_Witness ==
    /\ phase = "listening"
    /\ \E w \in 1..Len(options.webhooks) :
            /\ Len(options.webhooks[w].events) = 2
            /\ options.webhooks[w].events[1] = "bogus.event"
            /\ options.webhooks[w].events[2] = "wallet.vote"
            /\ "wallet.vote" \in DOMAIN events
    /\ warnings # << >>

----------------------------------------------------------------------------
(* Properties of the delegate diff *)

\* the task is a delegate-change dispatch whose diff has returned
DiffReturned(task) ==
    /\ task.name = "activedelegateschanged"
    /\ task.pc \notin {"idle", "await_trigger"}

\* the list of usernames the trigger's answer carried
ObservedList(task) ==
    [i \in 1..Len(task.diff.answer.wallets) |-> task.diff.answer.wallets[i].username]

\* s lists, in the order of `from`, exactly the elements of `from` that are not
\* members of `other`
IsDifferenceInOrder(s, from, other) ==
    LET kept == { i \in 1..Len(from) : \A j \in 1..Len(other) : other[j] # from[i] }
    IN  /\ Len(s) = Cardinality(kept)
        /\ \E f \in [1..Len(s) -> kept] :
                /\ \A a, b \in 1..Len(s) : a < b => f[a] < f[b]
                /\ \A a \in 1..Len(s) : s[a] = from[f[a]]

\* C2: when the trigger answers a list C and the call against baseline P is not
\* suppressed, the arguments are [added, removed] with added the members of C not
\* in P in C's order and removed the members of P not in C in P's order, and no
\* name is in both.
C2_DiffIsOrderedSetDifference ==
    \A t \in Slots :
        LET task == tasks[t]
        IN  ( /\ DiffReturned(task)
              /\ ~task.diff.answer.none
              /\ task.messageData.kind = "args" ) =>
                LET added == task.messageData.args[1]
                    removed == task.messageData.args[2]
                    P == task.previouslyActiveDelegates
                    C == ObservedList(task)
                IN  /\ Len(task.messageData.args) >= 2
                    /\ added.t = "array"
                    /\ removed.t = "array"
                    /\ IsDifferenceInOrder(added.v, C, P)
                    /\ IsDifferenceInOrder(removed.v, P, C)
                    /\ \A a \in 1..Len(added.v) : \A b \in 1..Len(removed.v) :
                            added.v[a] # removed.v[b]

\* the diff of [alice, bob, carol] against [bob, carol, dave] has returned
\* [[dave], [alice]]
C2_Witness ==
    /\ DiffReturned(tasks[1])
    /\ tasks[1].previouslyActiveDelegates = << "alice", "bob", "carol" >>
    /\ ~tasks[1].diff.answer.none
    /\ ObservedList(tasks[1]) = << "bob", "carol", "dave" >>
    /\ tasks[1].messageData.kind = "args"
    /\ tasks[1].messageData.args[1] = Arr(<< "dave" >>)
    /\ tasks[1].messageData.args[2] = Arr(<< "alice" >>)

\* the step replaces the baseline by the whole list that listen() obtained, or by
\* the whole list observed by a diff that returns arguments in this step
BaselineReplacedAsAWhole ==
    LAST_ACTIVE_DELEGATES_CACHED' # LAST_ACTIVE_DELEGATES_CACHED =>
        \/ /\ phase = "constructed"
           /\ phase' = "listening"
           /\ LAST_ACTIVE_DELEGATES_CACHED' = startupDelegates'
        \/ \E t \in Slots :
            /\ tasks[t].pc = "await_trigger"
            /\ DiffReturned(tasks'[t])
            /\ ~tasks'[t].diff.answer.none
            /\ tasks'[t].messageData.kind = "args"
            /\ LAST_ACTIVE_DELEGATES_CACHED' = ObservedList(tasks'[t])

\* C4: the stored baseline is always the list listen() obtained at startup or,
\* once a diff that was not suppressed has observed a list, the list the latest
\* such diff observed; every step that changes it replaces it by one of those
\* lists as a whole.
C4_BaselineIsStartupOrObserved ==
    /\ [](LAST_ACTIVE_DELEGATES_CACHED = lastNotified)
    /\ [][BaselineReplacedAsAWhole]_vars

\* a diff that was not suppressed has replaced the startup list by the one it observed
C4_Witness ==
    /\ DiffReturned(tasks[1])
    /\ ~tasks[1].diff.answer.none
    /\ tasks[1].messageData.kind = "args"
    /\ LAST_ACTIVE_DELEGATES_CACHED # startupDelegates
    /\ LAST_ACTIVE_DELEGATES_CACHED = ObservedList(tasks[1])
    /\ startupDelegates = << "alice", "bob" >>
    /\ LAST_ACTIVE_DELEGATES_CACHED = << "bob", "carol" >>

\* the two lists have the same members
SameMembers(a, b) ==
    { a[i] : i \in 1..Len(a) } = { b[i] : i \in 1..Len(b) }

\* the list a diff takes the chain to have: none when the trigger answers nothing
CurrentList(task) ==
    IF task.diff.answer.none THEN << >> ELSE ObservedList(task)

\* the diff of the task returned suppression, left the baseline alone and no POST
\* was issued for it
SuppressedQuietly(task) ==
    /\ task.messageData.kind = "null"
    /\ task.diff.after = task.diff.before
    /\ task.requests = << >>
    /\ task.outcome \in {"none", "suppressed"}

\* C3: a delegate-change dispatch that starts after the one before it has finished,
\* the trigger's answer being the same for both, returns suppression, leaves the
\* baseline as it was and sends no POST; and a dispatch that runs alone and finds
\* the members of the baseline is suppressed.
C3_DiffIdempotent ==
    \A t \in Slots :
        LET task == tasks[t]
        IN  /\ (DiffReturned(task) /\ task.sequel) => SuppressedQuietly(task)
            /\ ( /\ DiffReturned(task)
                 /\ ~task.overlapped
                 /\ SameMembers(task.previouslyActiveDelegates, CurrentList(task)) ) =>
                    SuppressedQuietly(task)

\* the second of two dispatches in sequence, the trigger having answered the same
\* list to both, has been suppressed
C3_SequelSuppressed ==
    \E t \in Slots :
        /\ DiffReturned(tasks[t])
        /\ tasks[t].sequel
        /\ ~tasks[t].diff.answer.none
        /\ tasks[t].outcome = "suppressed"

\* the task notified its targets of the change its diff returned
Notified(task) ==
    /\ DiffReturned(task)
    /\ task.messageData.kind = "args"
    /\ Len(task.messageData.args) >= 2
    /\ task.requests # << >>

\* C5: no two delegate-change dispatches in flight together compute their diff
\* against the same baseline value and both notify of the same change.
C5_NoInterleavedReadModifyWrite ==
    \A t, u \in Slots :
        ( /\ t # u
          /\ tasks[t].overlapped
          /\ tasks[u].overlapped
          /\ Notified(tasks[t])
          /\ Notified(tasks[u]) ) =>
            ~ ( /\ tasks[t].previouslyActiveDelegates = tasks[u].previouslyActiveDelegates
                /\ tasks[t].messageData.args[1] = tasks[u].messageData.args[1]
                /\ tasks[t].messageData.args[2] = tasks[u].messageData.args[2] )

----------------------------------------------------------------------------
(* Properties of the dispatch *)

\* a push target whose configuration lacks the token or the user
PushWithoutCredentials(target) ==
    /\ detectPlatform(target.endpoint) = "pushover"
    /\ \/ Prop(target.payload, "token") \in {Undefined, ""}
       \/ Prop(target.payload, "user") \in {Undefined, ""}

\* the transform of the task has returned an argument list, and the dispatch has
\* gone on from there
TransformReturnedArguments(task) ==
    /\ task.messageData.kind = "args"
    /\ task.pc \in {"sleep", "await_all", "done", "rejected"}

\* the webhooks of the configuration that list the name
SubscribedTo(name) ==
    { w \in 1..Len(options.webhooks) :
        \E i \in 1..Len(options.webhooks[w].events) : options.webhooks[w].events[i] = name }

\* the task has issued one POST for each webhook of the set, to its endpoint
OnePostPerWebhook(task, subscribed) ==
    /\ Len(task.requests) = Cardinality(subscribed)
    /\ \A w \in subscribed :
            \E k \in 1..Len(task.requests) :
                task.requests[k].endpoint = options.webhooks[w].endpoint
    /\ \A k \in 1..Len(task.requests) :
            \E w \in subscribed :
                task.requests[k].endpoint = options.webhooks[w].endpoint

\* an unvote occurrence of a transaction with more than one vote directive
SwitchUnvote(task) ==
    /\ task.pc # "idle"
    /\ task.event = "wallet.unvote"
    /\ Len(task.data.votes) > 1

\* a vote occurrence whose handler has run its loop
VoteDispatched(task) ==
    /\ task.event = "wallet.vote"
    /\ task.pc \in {"sleep", "await_all", "done", "rejected"}

\* the unvote of a vote switch ends at once, with no POST and no error
SwitchUnvoteIsSilent(task) ==
    SwitchUnvote(task) =>
        /\ task.pc = "done"
        /\ task.requests = << >>
        /\ task.errors = << >>

\* C6: the unvote of a vote switch produces no POST and no error whatever targets
\* listen to unvote, and a vote occurrence (that of the switch included) produces
\* one POST per target listening to vote, push targets that lack token or user
\* excepted.
C6_VoteSwitchSuppression ==
    \A t \in Slots :
        /\ SwitchUnvoteIsSilent(tasks[t])
        /\ VoteDispatched(tasks[t]) =>
                OnePostPerWebhook(tasks[t],
                    { w \in SubscribedTo("wallet.vote") :
                        ~PushWithoutCredentials(options.webhooks[w]) })

\* the unvote of a vote switch has been dropped although two targets listen to unvote
C6_Witness ==
    /\ SwitchUnvote(tasks[1])
    /\ tasks[1].outcome = "unvote_switch"
    /\ Cardinality(SubscribedTo("wallet.unvote")) = 2

\* C6 as stated: the unvote of a vote switch produces no POST and no error, and a
\* vote occurrence produces one POST per target listening to vote.
C6_AsStated ==
    \A t \in Slots :
        /\ SwitchUnvoteIsSilent(tasks[t])
        /\ VoteDispatched(tasks[t]) =>
                OnePostPerWebhook(tasks[t], SubscribedTo("wallet.vote"))

\* the requests of the task that went to the i-th target of its list
PostsTo(task, i) ==
    { k \in 1..Len(task.requests) : task.requests[k].target = i }

\* the number of errors of the kind the task has logged
ErrorCount(task, kind) ==
    Cardinality({ e \in 1..Len(task.errors) : task.errors[e] = kind })

\* the push targets without credentials in the list of the task
Uncredentialed(task) ==
    { i \in 1..Len(task.webhooks) : PushWithoutCredentials(task.webhooks[i]) }

\* the targets of the task's list that are to get a POST
Deliverable(task) ==
    (1..Len(task.webhooks)) \ Uncredentialed(task)

\* C7: once the transform of an occurrence has returned arguments, each push target
\* of its list that lacks token or user gets no POST and one error is logged for
\* it, and every other target of the list, before or after it, gets its POST.
C7_MissingCredentialsSkipOneTarget ==
    \A t \in Slots :
        TransformReturnedArguments(tasks[t]) =>
            /\ \A i \in Uncredentialed(tasks[t]) : PostsTo(tasks[t], i) = {}
            /\ ErrorCount(tasks[t], "pushover") = Cardinality(Uncredentialed(tasks[t]))
            /\ \A i \in Deliverable(tasks[t]) : Cardinality(PostsTo(tasks[t], i)) = 1

\* a request of the task has been rejected and the handler has gone through its catch
DeliveryFailed(task) ==
    /\ task.pc = "done"
    /\ task.outcome = "delivery_failed"
    /\ \E k \in 1..Len(task.requests) : task.requests[k].state = "rejected"

\* the handler of the task returns in this step, through the catch or not
Returns(t) ==
    /\ tasks[t].pc = "await_all"
    /\ tasks'[t].pc = "done"

\* the catch leaves every request as it is: none is withdrawn, none is issued again
CatchLeavesRequestsAlone ==
    \A t \in Slots : Returns(t) => tasks'[t].requests = tasks[t].requests

\* C8: when requests of an occurrence are rejected, every target that is to get a
\* POST has got exactly one, the catch leaves all requests as they are, the handler
\* returns, and it has logged exactly one delivery error, besides one error for
\* each push target that lacks token or user.
C8_DeliveryFailureIsolation ==
    /\ [](\A t \in Slots :
            DeliveryFailed(tasks[t]) =>
                /\ \A i \in Deliverable(tasks[t]) :
                        Cardinality(PostsTo(tasks[t], i)) = 1
                /\ Len(tasks[t].requests) = Cardinality(Deliverable(tasks[t]))
                /\ ErrorCount(tasks[t], "delivery") = 1
                /\ Len(tasks[t].errors) = 1 + Cardinality(Uncredentialed(tasks[t])))
    /\ [][CatchLeavesRequestsAlone]_vars

\* both requests of an occurrence with two targets have been rejected and the
\* handler has returned
C8_Witness ==
    /\ DeliveryFailed(tasks[1])
    /\ Len(tasks[1].webhooks) = 2
    /\ Len(tasks[1].requests) = 2
    /\ \A k \in 1..2 : tasks[1].requests[k].state = "rejected"

\* C8 as stated: when requests of an occurrence are rejected, every target of the
\* list has got exactly one POST, the catch leaves all requests as they are, the
\* handler returns, and exactly one error has been logged for the occurrence.
C8_AsStated ==
    /\ [](\A t \in Slots :
            DeliveryFailed(tasks[t]) =>
                /\ \A i \in 1..Len(tasks[t].webhooks) :
                        Cardinality(PostsTo(tasks[t], i)) = 1
                /\ Len(tasks[t].errors) = 1)
    /\ [][CatchLeavesRequestsAlone]_vars

\* the body the target is to get: its configured payload with the message written
\* into the field it declares
ConfiguredBody(task, i) ==
    LET webhook == task.webhooks[i]
        platform == detectPlatform(webhook.endpoint)
        rendered == messages(IF platform = "pushover" THEN "fallback" ELSE platform,
                             task.name, task.messageData.args)
    IN  (Prop(webhook.payload, "msg") :> rendered.text) @@ webhook.payload

\* C9: the body of every POST is the configured payload of its target with the
\* declared message field set to the message rendered for the target's platform,
\* whether the HTTP client reads the object when it is called or later.
C9_BodyIsConfiguredPayload ==
    \A t \in Slots :
        \A k \in 1..Len(tasks[t].requests) :
            /\ tasks[t].requests[k].body = ConfiguredBody(tasks[t], tasks[t].requests[k].target)
            /\ tasks[t].lateBodies[k] = ConfiguredBody(tasks[t], tasks[t].requests[k].target)

\* the targets of the requests of the task, in the order they were issued
IssuedTargets(task) ==
    [k \in 1..Len(task.requests) |-> task.requests[k].target]

\* the sequence lists the members of the set in increasing order, each once
IsIncreasingListOf(seq, set) ==
    /\ Len(seq) = Cardinality(set)
    /\ \A k \in 1..Len(seq) : seq[k] \in set
    /\ \A k, l \in 1..Len(seq) : k < l => seq[k] < seq[l]

\* no request is issued while the handler waits
NoPostWhileWaiting ==
    \A t \in Slots :
        tasks[t].pc \in {"sleep", "await_all"} => tasks'[t].requests \in
            { tasks[t].requests } \cup
            { [tasks[t].requests EXCEPT ![k].state = state] :
                k \in 1..Len(tasks[t].requests), state \in Outcomes }

\* C10: once the transform of an occurrence has returned arguments, one POST has
\* been issued per target of its list, push targets without credentials excepted,
\* in the order of the list, and none is issued after the handler has begun to wait.
C10_FanOutInOrderBeforeWaiting ==
    /\ [](\A t \in Slots :
            TransformReturnedArguments(tasks[t]) =>
                IsIncreasingListOf(IssuedTargets(tasks[t]), Deliverable(tasks[t])))
    /\ [][NoPostWhileWaiting]_vars

----------------------------------------------------------------------------
(* Properties of the diff's result *)

\* the diff of the task has just returned: messageData is what it returned
DiffJustReturned(task) ==
    /\ task.name = "activedelegateschanged"
    /\ task.pc = "await_transform"

\* the value is the pair [added, removed] with a name in one of the two
IsChangePair(messageData) ==
    /\ messageData.kind = "args"
    /\ Len(messageData.args) = 2
    /\ messageData.args[1].t = "array"
    /\ messageData.args[2].t = "array"
    /\ messageData.args[1].v # << >> \/ messageData.args[2].v # << >>

\* C11: whatever the trigger answers, the diff returns suppression or the pair
\* [added, removed] with one of the two non-empty; when the trigger answers
\* nothing the current list counts as empty, so that a non-empty baseline gives
\* [[], baseline] and the baseline becomes empty, and an empty baseline gives
\* suppression.
C11_DiffReturnsSuppressionOrPair ==
    \A t \in Slots :
        LET task == tasks[t]
        IN  DiffJustReturned(task) =>
                /\ task.messageData.kind = "null" \/ IsChangePair(task.messageData)
                /\ task.diff.answer.none =>
                        IF task.previouslyActiveDelegates = << >>
                        THEN /\ task.messageData.kind = "null"
                             /\ task.diff.after = task.diff.before
                        ELSE /\ task.messageData =
                                    Args(<< Arr(<< >>), Arr(task.previouslyActiveDelegates) >>)
                             /\ task.diff.after = << >>

\* the trigger has answered nothing to a diff whose baseline holds a delegate
C11_NoAnswerCase ==
    \E t \in Slots :
        /\ DiffJustReturned(tasks[t])
        /\ tasks[t].diff.answer.none
        /\ tasks[t].previouslyActiveDelegates = << "alice" >>

----------------------------------------------------------------------------
(* Properties of the catch *)

\* C12: when a request of an occurrence is rejected, the delivery error is logged
\* only once every request of the occurrence has settled: at the moment the
\* handler logs it, no request of the occurrence is still pending.
C12_ErrorLoggedAfterAllSettled ==
    \A t \in Slots :
        ErrorCount(tasks[t], "delivery") > 0 =>
            /\ tasks[t].pendingAtCatch = 0
            /\ \A k \in 1..Len(tasks[t].requests) : tasks[t].requests[k].state # "pending"

\* C13: no dispatch ends with an exception or a rejection: the handler of every
\* occurrence returns, the occurrence having been suppressed (the unvote of a
\* vote switch, a transform returning null), skipped with an error logged (no
\* handler), or delivered with its requests awaited.
C13_NoRejectionEscapes ==
    \A t \in Slots :
        /\ tasks[t].pc # "rejected"
        /\ tasks[t].outcome \notin {"transform_threw", "render_threw"}
        /\ tasks[t].pc = "done" =>
                tasks[t].outcome \in {"unvote_switch", "suppressed", "no_handler",
                                      "delivered", "delivery_failed"}

----------------------------------------------------------------------------
(* SpecParity: every event that has a transform, dispatched to one target of *)
(* each platform                                                            *)

\* the names of the handlers table, as one webhook lists them
ParityEvents ==
    << "wallet.vote", "wallet.unvote", "forger.missing", "forger.failed",
       "forger.started", "block.forged", "round.created", "delegate.registered",
       "delegate.resigned", "activedelegateschanged" >>

ParityOptions ==
    { Options(<< Webhook(kind, ParityEvents) >>) : kind \in TargetKinds }

NextParity ==
    \/ /\ phase = "constructed"
       /\ \E opts \in ParityOptions : \E answer \in Answers : Listen(opts, answer)
    \/ \E l \in listeners : \E data \in PayloadsFor(l.event) : Handle(1, l, data)
    \/ \E answer \in Answers : TriggerAnswers(1, answer)
    \/ Resume(1)
    \/ SleepElapses(1)
    \/ \E state \in Outcomes : Settle(1, 1, state)
    \/ AllFulfilled(1)
    \/ CatchRejection(1)

SpecParity ==
    InitWith({ << "alice" >>, << "alice", "bob" >> }, NoFuel) /\ [][NextParity]_vars

\* the platforms detectPlatform can return
Platforms ==
    { "slack", "discord", "pushover", "fallback" }

\* C14: for every event that has a transform, the arguments the transform returned,
\* with the explorer URL appended, are rendered without an error by the renderer
\* of every platform, the push platform being rendered by the fallback set.
C14_PlatformParity ==
    \A t \in Slots :
        TransformReturnedArguments(tasks[t]) =>
            /\ tasks[t].name \in HandlerNames
            /\ \A platform \in Platforms :
                    ~getMessage(platform, tasks[t].name, tasks[t].messageData.args).threw
            /\ getMessage("pushover", tasks[t].name, tasks[t].messageData.args)
                    = fallback(tasks[t].name, tasks[t].messageData.args)

----------------------------------------------------------------------------
(* Properties of the pacing delay *)

\* the handler goes from its loop into the try block in this step
EntersTry(t) ==
    /\ tasks[t].pc = "await_transform"
    /\ tasks'[t].pc \in {"sleep", "await_all"}

\* the delay is entered by the occurrences dispatched as wallet.vote and by no
\* other, with every request of the occurrence already issued
DelayIffVote ==
    \A t \in Slots :
        EntersTry(t) =>
            /\ tasks'[t].pc = "sleep" <=> tasks'[t].name = "wallet.vote"
            /\ IsIncreasingListOf(IssuedTargets(tasks'[t]), Deliverable(tasks'[t]))

\* during the delay the handler neither returns nor logs, whatever has become of
\* its requests; it goes on to await them when the delay has elapsed
AwaitedAfterDelay ==
    \A t \in Slots :
        tasks[t].pc = "sleep" =>
            /\ tasks'[t].pc \in {"sleep", "await_all"}
            /\ tasks'[t].errors = tasks[t].errors
            /\ Len(tasks'[t].requests) = Len(tasks[t].requests)

\* C15: the delay is applied if and only if the occurrence is dispatched as a vote
\* event; all its POSTs are issued before the delay starts; the handler awaits
\* them only after the delay has elapsed; and a request rejected during the delay
\* has been caught and logged, once, when the handler has returned.
C15_ThrottleRule ==
    /\ [](\A t \in Slots :
            /\ tasks[t].pc = "sleep" => tasks[t].name = "wallet.vote"
            /\ tasks[t].failedInDelay => tasks[t].name = "wallet.vote"
            /\ (tasks[t].failedInDelay /\ tasks[t].pc \notin {"sleep", "await_all"}) =>
                    /\ tasks[t].pc = "done"
                    /\ tasks[t].outcome = "delivery_failed"
                    /\ ErrorCount(tasks[t], "delivery") = 1)
    /\ [][DelayIffVote]_vars
    /\ [][AwaitedAfterDelay]_vars

\* a request of a vote occurrence was rejected during the delay, and the handler
\* has logged it after the delay and returned
C15_Witness ==
    /\ tasks[1].name = "wallet.vote"
    /\ tasks[1].failedInDelay
    /\ tasks[1].pc = "done"
    /\ ErrorCount(tasks[1], "delivery") = 1
    /\ Len(tasks[1].requests) = 2

----------------------------------------------------------------------------
(* SpecRouting: two webhooks that list different names, one the synthetic    *)
(* delegate-change name and the other the trigger event under it            *)

RoutingOptions ==
    { Options(<< Webhook(first, << "activedelegateschanged", "block.forged" >>),
                 Webhook(second, << "block.applied", "block.forged", "wallet.unvote",
                                    "peer.added" >>) >>) :
        first \in TargetKinds, second \in TargetKinds }

NextRouting ==
    \/ /\ phase = "constructed"
       /\ \E opts \in RoutingOptions : \E answer \in Answers : Listen(opts, answer)
    \/ \E l \in listeners : \E data \in PayloadsFor(l.event) : Handle(1, l, data)
    \/ \E answer \in Answers : TriggerAnswers(1, answer)
    \/ Resume(1)
    \/ \E k \in 1..2 : \E state \in Outcomes : Settle(1, k, state)
    \/ AllFulfilled(1)
    \/ CatchRejection(1)

SpecRouting ==
    InitWith({ << "bob" >>, << "alice", "bob" >> }, NoFuel) /\ [][NextRouting]_vars

\* the request went to a target whose webhook lists the name
SentToSubscriber(task, k, name) ==
    \E w \in SubscribedTo(name) :
        /\ task.requests[k].endpoint = options.webhooks[w].endpoint
        /\ task.webhooks[task.requests[k].target] = TargetOf(options.webhooks[w])

\* the message the body of the request carries in the field its target declares
MessageIn(task, k) ==
    Prop(task.requests[k].body,
         Prop(task.webhooks[task.requests[k].target].payload, "msg"))

\* the message of the name's template for the target's platform
RenderedUnder(task, k, name) ==
    getMessage(detectPlatform(task.requests[k].endpoint), name, task.messageData.args).text

\* C16: every POST of an occurrence goes to a target whose webhook lists the name
\* the occurrence is dispatched under.  The listener registered for the synthetic
\* delegate-change name receives block.applied occurrences and dispatches them
\* under the synthetic name: its targets, the diff as its transform and the
\* delegate-change templates; an occurrence that the listener of block.applied
\* itself receives is dispatched under block.applied, which has no transform.
C16_Routing ==
    /\ \A name \in DOMAIN events : \E l \in listeners : DispatchName(l) = name
    /\ \A l \in listeners :
            l.customEventName = "activedelegateschanged" => l.event = "block.applied"
    /\ \A t \in Slots :
        LET task == tasks[t]
        IN  /\ \A k \in 1..Len(task.requests) : SentToSubscriber(task, k, task.name)
            /\ (task.pc # "idle" /\ task.customEventName = "activedelegateschanged") =>
                    /\ task.event = "block.applied"
                    /\ task.name = "activedelegateschanged"
                    /\ task.webhooks = events["activedelegateschanged"]
                    /\ task.pc = "await_transform" =>
                            task.messageData =
                                activeDelegatesChanged(task.previouslyActiveDelegates,
                                                       task.diff.before,
                                                       task.diff.answer).messageData
                    /\ \A k \in 1..Len(task.requests) :
                            MessageIn(task, k) =
                                RenderedUnder(task, k, "activedelegateschanged")
            /\ ( /\ task.pc # "idle"
                 /\ task.event = "block.applied"
                 /\ task.customEventName = Undefined ) =>
                    /\ task.name = "block.applied"
                    /\ task.requests = << >>

\* a block.applied occurrence dispatched under the synthetic name has been posted
\* to the slack target that lists that name and not to the discord target that
\* lists block.applied
C16_Witness ==
    /\ Len(options.webhooks) = 2
    /\ TargetOf(options.webhooks[1]) = SlackTarget
    /\ TargetOf(options.webhooks[2]) = DiscordTarget
    /\ tasks[1].event = "block.applied"
    /\ tasks[1].name = "activedelegateschanged"
    /\ tasks[1].pc = "await_all"
    /\ Len(tasks[1].requests) = 1
    /\ tasks[1].requests[1].endpoint = SlackTarget.endpoint

----------------------------------------------------------------------------
(* Properties of the handler lookup and of suppression *)

\* the valid event names that the handlers table of subscribe() does not hold
NoTransformNames ==
    { "block.applied", "block.reverted", "peer.added", "peer.removed",
      "transaction.applied", "transaction.expired", "transaction.forged",
      "transaction.reverted", "round.missed" }

\* C17: an occurrence dispatched under a valid, subscribed name that has no
\* transform logs one error and sends no POST; its handler returns at once, and
\* neither a transform nor a template is applied.
C17_NoHandlerLogsAndStops ==
    \A t \in Slots :
        LET task == tasks[t]
        IN  (task.pc # "idle" /\ task.name \in NoTransformNames) =>
                /\ task.pc = "done"
                /\ task.outcome = "no_handler"
                /\ task.errors = << "no_handler" >>
                /\ task.requests = << >>
                /\ task.messageData = Pending

\* a peer.added occurrence with a target subscribed has been dropped with one error
C17_Witness ==
    /\ tasks[1].name = "peer.added"
    /\ tasks[1].pc = "done"
    /\ tasks[1].errors = << "no_handler" >>
    /\ "peer.added" \in DOMAIN events
    /\ events["peer.added"] # << >>

\* the transform of the task is to return suppression: a resignation without a
\* sender public key, a diff that finds the members of its baseline
SuppressionCase(task) ==
    \/ /\ task.name = "delegate.resigned"
       /\ task.pc # "idle"
       /\ task.data.senderPublicKey \in {Undefined, ""}
    \/ /\ DiffReturned(task)
       /\ ~task.diff.answer.none
       /\ SameMembers(task.previouslyActiveDelegates, ObservedList(task))

\* the dispatch of the task has sent nothing and logged nothing
Silent(task) ==
    /\ task.requests = << >>
    /\ task.errors = << >>
    /\ task.pc \in {"await_transform", "done"}
    /\ task.pc = "done" => task.outcome = "suppressed"

\* a step of a dispatch whose transform returned suppression changes nothing but
\* the dispatch's own progress
SuppressedStepChangesNoState ==
    \A t \in Slots :
        (tasks'[t] # tasks[t] /\ tasks'[t].messageData.kind = "null") =>
            /\ LAST_ACTIVE_DELEGATES_CACHED' = LAST_ACTIVE_DELEGATES_CACHED
            /\ events' = events
            /\ explorerTxUrl' = explorerTxUrl
            /\ listeners' = listeners
            /\ options' = options

\* C18: a resignation without a sender public key and a diff that finds no change
\* make their transform return suppression; a dispatch whose transform returned
\* suppression sends no POST, logs no error and leaves the baseline, the
\* subscription table and the configuration as they were.
C18_SuppressionIsSilent ==
    /\ [](\A t \in Slots :
            /\ SuppressionCase(tasks[t]) => tasks[t].messageData.kind = "null"
            /\ tasks[t].messageData.kind = "null" => Silent(tasks[t]))
    /\ [][SuppressedStepChangesNoState]_vars

\* a resignation without a sender public key has been suppressed although two
\* targets listen to delegate.resigned
C18_Witness ==
    /\ tasks[1].name = "delegate.resigned"
    /\ tasks[1].data.senderPublicKey = Undefined
    /\ tasks[1].pc = "done"
    /\ tasks[1].outcome = "suppressed"
    /\ Len(tasks[1].webhooks) = 2

----------------------------------------------------------------------------
(* Frame properties *)

\* once listen() has run, a step leaves the subscription table and the listeners
\* as they are
TableIsReadOnly ==
    phase = "listening" =>
        /\ events' = events
        /\ listeners' = listeners
        /\ explorerTxUrl' = explorerTxUrl

\* once listen() has run, a step that changes the baseline is the return of the
\* diff of a delegate-change dispatch, and no step of another dispatch changes it
BaselineChangedByDiffOnly ==
    phase = "listening" =>
        /\ LAST_ACTIVE_DELEGATES_CACHED' # LAST_ACTIVE_DELEGATES_CACHED =>
                \E t \in Slots :
                    /\ tasks[t].name = "activedelegateschanged"
                    /\ tasks[t].pc = "await_trigger"
                    /\ tasks'[t].pc = "await_transform"
        /\ \A t \in Slots :
                (tasks'[t] # tasks[t] /\ tasks'[t].name # "activedelegateschanged") =>
                    LAST_ACTIVE_DELEGATES_CACHED' = LAST_ACTIVE_DELEGATES_CACHED

\* C19: after startup the subscription table is the one listen() built from the
\* configuration and no dispatch changes it, and the stored baseline is changed
\* by the dispatch of the synthetic delegate-change event only.
C19_Frame ==
    /\ [](phase = "listening" =>
            events = registerWebhooks(EmptyObject, options.webhooks, 1))
    /\ [][TableIsReadOnly]_vars
    /\ [][BaselineChangedByDiffOnly]_vars

\* a vote occurrence has been delivered to two targets; the table is the one built
\* at startup and the baseline the startup list
C19_Witness ==
    /\ tasks[1].name = "wallet.vote"
    /\ tasks[1].pc = "done"
    /\ tasks[1].outcome = "delivered"
    /\ Len(tasks[1].requests) = 2
    /\ events = registerWebhooks(EmptyObject, options.webhooks, 1)
    /\ LAST_ACTIVE_DELEGATES_CACHED = << "alice" >>

----------------------------------------------------------------------------
(* Properties of the credentials of push targets *)

\* the loop of the task has run to its end without an exception
LoopCompleted(task) ==
    /\ task.messageData.kind = "args"
    /\ task.pc \in {"sleep", "await_all", "done"}

\* the target is a push target
IsPush(target) ==
    detectPlatform(target.endpoint) = "pushover"

\* the requests of the task that went to targets other than push targets, in order
OtherRequests(task) ==
    SelectSeq(task.requests, LAMBDA r : ~IsPush(task.webhooks[r.target]))

\* what the loop does for the list of the task with its push targets left out
WithoutPushTargets(task) ==
    fanOut(SelectSeq(task.webhooks, LAMBDA w : ~IsPush(w)), 1, task.name,
           task.messageData.args, << Envelope(task.event, task.data) >>, << >>, << >>)

\* the object carries a token or a user
CarriesCredentials(body) ==
    "token" \in DOMAIN body \/ "user" \in DOMAIN body

\* C20: the token and the user of a push target are in no body but that of the
\* POST to that push target, and the body of the POST to any other target is the
\* one it would be with the push targets left out of the list, whether the HTTP
\* client reads the object when it is called or later.
C20_CredentialConfinement ==
    \A t \in Slots :
        LET task == tasks[t]
            others == OtherRequests(task)
            alone == WithoutPushTargets(task)
        IN  LoopCompleted(task) =>
                /\ \A k \in 1..Len(task.requests) :
                        ~IsPush(task.webhooks[task.requests[k].target]) =>
                            /\ ~CarriesCredentials(task.requests[k].body)
                            /\ ~CarriesCredentials(task.lateBodies[k])
                /\ Len(others) = Len(alone.requests)
                /\ \A n \in 1..Len(others) :
                        /\ others[n].body = alone.requests[n].body
                        /\ task.lateBodies[CHOOSE k \in 1..Len(task.requests) :
                                                task.requests[k].target = others[n].target]
                                = lateBody(alone, n)

----------------------------------------------------------------------------
(* Properties of the baseline after a diff *)

\* the task is a delegate-change dispatch that ran with no other one in flight
\* and to which the trigger answered a list
RanAloneAndObserved(task) ==
    /\ DiffReturned(task)
    /\ ~task.overlapped
    /\ ~task.diff.answer.none

\* in this step the diff of a dispatch that runs alone returns, the trigger having
\* answered a list, and leaves a baseline with the members of that list
BaselineHasObservedMembers ==
    \A t \in Slots :
        ( /\ tasks[t].pc = "await_trigger"
          /\ RanAloneAndObserved(tasks'[t]) ) =>
                SameMembers(LAST_ACTIVE_DELEGATES_CACHED', ObservedList(tasks'[t]))

\* C21: once the diff of a delegate-change dispatch that overlapped no other one
\* has returned, the trigger having answered a list C, the stored baseline has
\* exactly the members of C, whether the diff returned suppression (the baseline
\* is left as it was) or arguments (the baseline is replaced by C).
C21_BaselineHasMembersOfObserved ==
    /\ [](\A t \in Slots :
            RanAloneAndObserved(tasks[t]) =>
                /\ SameMembers(tasks[t].diff.after, ObservedList(tasks[t]))
                /\ tasks[t].messageData.kind = "null" =>
                        tasks[t].diff.after = tasks[t].diff.before
                /\ tasks[t].messageData.kind # "null" =>
                        tasks[t].diff.after = ObservedList(tasks[t]))
    /\ [][BaselineHasObservedMembers]_vars

\* a diff that ran alone was suppressed on the baseline's members in another
\* order, and the baseline has kept its own order
C21_Witness ==
    /\ RanAloneAndObserved(tasks[1])
    /\ tasks[1].messageData.kind = "null"
    /\ ObservedList(tasks[1]) = << "bob", "alice" >>
    /\ LAST_ACTIVE_DELEGATES_CACHED = << "alice", "bob" >>

====
